---- MODULE Spec2Model ----
(***************************************************************************)
(* A model of motif-mark-oop.py: FASTA parsing, motif construction, the    *)
(* overlap-preserving motif search with its per-position index, and the    *)
(* layout numbers of MotifsImage.                                          *)
(*                                                                         *)
(* A Python str is a sequence of one-character strings.  A Motif object is *)
(* a record carrying an id, its object identity: the class defines neither *)
(* __eq__ nor __hash__, so two Motif objects are equal only when they are  *)
(* the same object.                                                        *)
(***************************************************************************)
EXTENDS Integers, Sequences, FiniteSets, TLC

VARIABLES
    pc,                \* position of the run
    fa_file,           \* the lines of the FASTA file (input)
    fa_pos,            \* number of lines parse_fasta has consumed
    readname,          \* parse_fasta's local readname
    seq,               \* parse_fasta's local seq
    transcripts_list,  \* list of Transcript objects
    motif_file,        \* the lines of the motif file (input)
    motifs_list,       \* list of Motif objects
    tran_seq,          \* the bases handed to Transcript(...) (input)
    tran,              \* the Transcript find_motifs runs on
    motif_locations,   \* tran.motif_locations: Motif id -> covered positions
    position_motif,    \* tran.position_motif: position -> motif texts
    mm_image,          \* the MotifsImage object, NoImage until constructed
    ticks,             \* the tick lines add_ticks has drawn
    error              \* the exception that ended the run, "none" otherwise

vars == <<pc, fa_file, fa_pos, readname, seq, transcripts_list, motif_file,
          motifs_list, tran_seq, tran, motif_locations, position_motif,
          mm_image, ticks, error>>

(***************************************************************************)
(* Bounds of the model.                                                    *)
(***************************************************************************)
MaxSeqLen == 4
MaxMotifs == 2
MaxLines == 3
MaxImgMotifs == 11
MaxImgLen == 9
MaxTranscripts == 2

(***************************************************************************)
(* Python str and list primitives.                                         *)
(***************************************************************************)
UppercaseLetters ==
    <<"A","B","C","D","E","F","G","H","I","J","K","L","M",
      "N","O","P","Q","R","S","T","U","V","W","X","Y","Z">>

LowercaseLetters ==
    <<"a","b","c","d","e","f","g","h","i","j","k","l","m",
      "n","o","p","q","r","s","t","u","v","w","x","y","z">>

Whitespace == {" ", "\t"}

SeqRange(s) == {s[i] : i \in 1..Len(s)}

\* str.upper() on one character: a lowercase letter becomes its uppercase
\* letter, every other character is kept.
UpperChar(c) ==
    IF \E i \in 1..Len(LowercaseLetters) : LowercaseLetters[i] = c
    THEN UppercaseLetters[CHOOSE i \in 1..Len(LowercaseLetters) : LowercaseLetters[i] = c]
    ELSE c

\* str.upper()
Upper(s) == [i \in 1..Len(s) |-> UpperChar(s[i])]

\* str.strip(): leading and trailing whitespace removed.
RECURSIVE LStrip(_)
LStrip(s) ==
    IF s # <<>> /\ Head(s) \in Whitespace THEN LStrip(Tail(s)) ELSE s

RECURSIVE RStrip(_)
RStrip(s) ==
    IF s # <<>> /\ s[Len(s)] \in Whitespace
    THEN RStrip(SubSeq(s, 1, Len(s) - 1))
    ELSE s

Strip(s) == RStrip(LStrip(s))

\* str.split(): the whitespace-delimited tokens, in order, none empty.
RECURSIVE SplitFrom(_, _, _)
SplitFrom(s, tokens, cur) ==
    IF s = <<>>
    THEN IF cur = <<>> THEN tokens ELSE Append(tokens, cur)
    ELSE IF Head(s) \in Whitespace
         THEN SplitFrom(Tail(s), IF cur = <<>> THEN tokens ELSE Append(tokens, cur), <<>>)
         ELSE SplitFrom(Tail(s), tokens, Append(cur, Head(s)))

Split(s) == SplitFrom(s, <<>>, <<>>)

\* str.startswith(">")
StartsWithGt(s) == s # <<>> /\ s[1] = ">"

\* list(range(a, b))
Range(a, b) == [i \in 1..(IF b > a THEN b - a ELSE 0) |-> a + i - 1]

\* [x for l in ls for x in l]
RECURSIVE Flatten(_)
Flatten(ls) == IF ls = <<>> THEN <<>> ELSE Head(ls) \o Flatten(Tail(ls))

(***************************************************************************)
(* The part of the re module the program uses.  A compiled pattern is a    *)
(* sequence of units, each the set of characters it accepts and each       *)
(* consuming one character, inside a lookahead or not.                     *)
(***************************************************************************)
\* Index of the first "]" of p, 0 when there is none.
RECURSIVE ClassEnd(_, _)
ClassEnd(p, i) ==
    IF i > Len(p) THEN 0
    ELSE IF p[i] = "]" THEN i ELSE ClassEnd(p, i + 1)

\* The units of a pattern text: "[...]" is a class, any other character a literal.
RECURSIVE ParsePattern(_)
ParsePattern(p) ==
    IF p = <<>> THEN <<>>
    ELSE IF Head(p) = "[" /\ ClassEnd(p, 2) > 0
         THEN <<SeqRange(SubSeq(p, 2, ClassEnd(p, 2) - 1))>>
              \o ParsePattern(SubSeq(p, ClassEnd(p, 2) + 1, Len(p)))
         ELSE <<{Head(p)}>> \o ParsePattern(Tail(p))

\* Whether the units match s at the 0-based index start.
MatchAt(units, s, start) ==
    /\ start + Len(units) <= Len(s)
    /\ \A k \in 1..Len(units) : s[start + k] \in units[k]

\* re.finditer: the 0-based starts of the matches, scanning left to right.  A
\* match of width 0 (a lookahead) moves the scan on by one character, any other
\* match moves it past the characters matched.
RECURSIVE FindIterFrom(_, _, _)
FindIterFrom(regex, s, pos) ==
    IF pos > Len(s) THEN <<>>
    ELSE IF MatchAt(regex.units, s, pos)
         THEN <<pos>> \o FindIterFrom(regex, s,
                  IF regex.lookahead \/ regex.units = <<>>
                  THEN pos + 1
                  ELSE pos + Len(regex.units))
         ELSE FindIterFrom(regex, s, pos + 1)

FindIter(regex, s) == FindIterFrom(regex, s, 0)

(***************************************************************************)
(* Nucleotide dictionary.                                                  *)
(***************************************************************************)
ambig_nucleotides ==
    ("N" :> <<"[","N","A","G","C","T","U","]">>) @@
    ("R" :> <<"[","R","A","G","]">>) @@
    ("Y" :> <<"[","Y","T","C","U","]">>) @@
    ("K" :> <<"[","K","G","T","U","]">>) @@
    ("M" :> <<"[","M","A","C","]">>) @@
    ("S" :> <<"[","S","G","C","]">>) @@
    ("W" :> <<"[","W","A","T","U","]">>) @@
    ("B" :> <<"[","B","C","G","T","U","]">>) @@
    ("D" :> <<"[","D","A","G","T","U","]">>) @@
    ("H" :> <<"[","H","A","C","G","]">>) @@
    ("V" :> <<"[","V","A","C","G","]">>) @@
    ("U" :> <<"[","T","U","]">>) @@
    ("T" :> <<"[","T","U","]">>)

(***************************************************************************)
(* class Motif                                                             *)
(***************************************************************************)
\* The character of a motif as modular_motif ignoring the table would copy it.
ResolveCharLiteral(c) == <<c>>

\* One turn of modular_motif's loop: the text added to new_motif for c.
ResolveChar(c) ==
    IF c \in DOMAIN ambig_nucleotides THEN ambig_nucleotides[c] ELSE <<c>>

RECURSIVE modular_motif(_)
modular_motif(motif_seq) ==
    IF motif_seq = <<>> THEN <<>>
    ELSE ResolveChar(Head(motif_seq)) \o modular_motif(Tail(motif_seq))

Motif(id, motif_seq) ==
    [id |-> id, seq |-> motif_seq, length |-> Len(motif_seq),
     re_seq |-> modular_motif(motif_seq)]

\* parse_motif_txt: one Motif per non-empty stripped line, upper-cased.
RECURSIVE ParseMotifLines(_, _)
ParseMotifLines(file, list) ==
    IF file = <<>> THEN list
    ELSE ParseMotifLines(Tail(file),
            IF Strip(Head(file)) # <<>>
            THEN Append(list, Motif(Len(list) + 1, Upper(Strip(Head(file)))))
            ELSE list)

parse_motif_txt(file) == ParseMotifLines(file, <<>>)

(***************************************************************************)
(* class Transcript                                                        *)
(***************************************************************************)
\* r'[A-Z]'
ExonPattern == [lookahead |-> FALSE, units |-> <<SeqRange(UppercaseLetters)>>]

\* match.start() without the adjustment to the "true" position.
TruePositionZeroBased(start) == start

\* match.start() + 1
TruePosition(start) == start + 1

Transcript(name, sequence) ==
    LET matches == FindIter(ExonPattern, sequence) IN
    [readname |-> name,
     sequence |-> sequence,
     exons |-> [k \in 1..Len(matches) |-> TruePosition(matches[k])],
     length |-> Len(sequence)]

\* A pattern that consumes what it matches, as '{0}'.format(re_seq) would.
MotifPatternConsuming(motif) ==
    [lookahead |-> FALSE, units |-> ParsePattern(motif.re_seq)]

\* '(?={0})'.format(motif.re_seq)
MotifPattern(motif) ==
    [lookahead |-> TRUE, units |-> ParsePattern(motif.re_seq)]

\* The value find_motifs stores in motif_locations[motif].
MotifLocations(t, motif) ==
    LET matches == FindIter(MotifPattern(motif), Upper(t.sequence)) IN
    Flatten([k \in 1..Len(matches) |->
               Range(matches[k] + 1, matches[k] + motif.length + 1)])

\* Python's == between a Motif object and a str: never equal.
PyEq(a, b) == IF a.type # b.type THEN FALSE ELSE a.val = b.val

MotifObj(motif) == [type |-> "Motif", val |-> motif.id]

StrObj(s) == [type |-> "str", val |-> s]

\* motif in labels, labels being a list of str
MotifInLabels(motif, labels) ==
    \E k \in 1..Len(labels) : PyEq(MotifObj(motif), StrObj(labels[k]))

\* The inner loop of find_motifs at one position, over the keys of
\* motif_locations from the k-th on, in insertion order.
RECURSIVE LabelsFrom(_, _, _, _, _)
LabelsFrom(list, locs, position, k, labels) ==
    IF k > Len(list) THEN labels
    ELSE LabelsFrom(list, locs, position, k + 1,
            IF position \in SeqRange(locs[list[k].id])
               /\ ~MotifInLabels(list[k], labels)
            THEN Append(labels, list[k].seq)
            ELSE labels)

\* range(0, len(self.sequence))
PositionRangeZeroBased(n) == 0..(n - 1)

\* range(1, len(self.sequence) + 1)
PositionRange(n) == 1..n

(***************************************************************************)
(* Inputs.                                                                 *)
(***************************************************************************)
NoImage == [constructed |-> FALSE]

\* All sequences over S of length at most n.
SeqsUpTo(S, n) == UNION {[1..k -> S] : k \in 0..n}

\* Bases of the searched sequence: an exon base, an intron base, and a base a
\* class is needed to match.
SeqAlphabet == {"A", "a", "U"}

\* Lines of a motif file: plain, lowercase with a T, an ambiguity code, with a
\* character that is no nucleotide code, with a U, and empty.
MotifLines ==
    { <<"A","A">>, <<"t","a">>, <<"R">>, <<"X","A">>, <<"A","U","A">>, <<>> }

\* The 13 codes of the table.
AmbigCodes == {"N","R","Y","K","M","S","W","B","D","H","V","U","T"}

Bases == {"A","C","G","T","U"}

InitCommon ==
    /\ pc = "start"
    /\ fa_pos = 0
    /\ readname = <<>>
    /\ seq = <<>>
    /\ transcripts_list = <<>>
    /\ tran = Transcript(<<>>, <<>>)
    /\ motifs_list = <<>>
    /\ motif_locations = <<>>
    /\ position_motif = <<>>
    /\ mm_image = NoImage
    /\ ticks = <<>>
    /\ error = "none"

\* Any short sequence against any short motif file.
InitAnnotate ==
    /\ InitCommon
    /\ fa_file = <<>>
    /\ tran_seq \in SeqsUpTo(SeqAlphabet, MaxSeqLen)
    /\ motif_file \in SeqsUpTo(MotifLines, MaxMotifs)

\* One code of the table against one base.
InitTable ==
    /\ InitCommon
    /\ fa_file = <<>>
    /\ \E b \in Bases : tran_seq = <<b>>
    /\ \E c \in AmbigCodes \cup {"A", "C", "G"} : motif_file = <<<<c>>>>

(***************************************************************************)
(* The annotation run: the main block's calls, one action each.            *)
(***************************************************************************)
\* tran = Transcript(readname, sequence)
NewTranscript ==
    /\ pc = "start"
    /\ tran' = Transcript(<<"t">>, tran_seq)
    /\ pc' = "transcript"
    /\ UNCHANGED <<fa_file, fa_pos, readname, seq, transcripts_list, motif_file,
                   motifs_list, tran_seq, motif_locations, position_motif,
                   mm_image, ticks, error>>

\* motifs_list = parse_motif_txt(args.motifs)
ParseMotifTxt ==
    /\ pc = "transcript"
    /\ motifs_list' = parse_motif_txt(motif_file)
    /\ pc' = "motifs"
    /\ UNCHANGED <<fa_file, fa_pos, readname, seq, transcripts_list, motif_file,
                   tran_seq, tran, motif_locations, position_motif,
                   mm_image, ticks, error>>

\* tran.find_motifs(motifs_list)
FindMotifs ==
    /\ pc = "motifs"
    /\ motif_locations' =
          [id \in 1..Len(motifs_list) |-> MotifLocations(tran, motifs_list[id])]
    /\ position_motif' =
          [position \in PositionRange(Len(tran.sequence)) |->
              LabelsFrom(motifs_list, motif_locations', position, 1, <<>>)]
    /\ pc' = "annotated"
    /\ UNCHANGED <<fa_file, fa_pos, readname, seq, transcripts_list, motif_file,
                   motifs_list, tran_seq, tran, mm_image, ticks, error>>

NextAnnotate == NewTranscript \/ ParseMotifTxt \/ FindMotifs

SpecAnnotate == InitAnnotate /\ [][NextAnnotate]_vars

SpecTable == InitTable /\ [][NextAnnotate]_vars

(***************************************************************************)
(* Properties of the annotation run.                                       *)
(***************************************************************************)
Annotated == pc = "annotated"

\* Number of entries of the list that equal x.
Count(list, x) == Cardinality({k \in 1..Len(list) : list[k] = x})

\* The 1-based indices at which the motif's pattern matches the upper-cased
\* sequence, read off the sequence position by position.
MatchStarts(motif, t) ==
    LET units == ParsePattern(motif.re_seq)
        upper == Upper(t.sequence)
    IN  {i \in 1..(t.length - motif.length + 1) :
            \A k \in 1..motif.length : upper[i + k - 1] \in units[k]}

\* The starts find_motifs recorded for a motif of length >= 1: motif_locations
\* holds, for each match in turn, the motif.length positions from its start on.
RecordedStarts(motif) ==
    {motif_locations[motif.id][(k - 1) * motif.length + 1] :
        k \in 1..(Len(motif_locations[motif.id]) \div motif.length)}

\* C1: after find_motifs, every position of every occurrence of every motif of
\* the list carries that motif's text exactly once in position_motif, also when
\* occurrences overlap and when the list holds the same text more than once.
C1_LabelExactlyOnce ==
    Annotated =>
        \A id \in 1..Len(motifs_list) :
            \A s \in MatchStarts(motifs_list[id], tran) :
                \A p \in s..(s + motifs_list[id].length - 1) :
                    Count(position_motif[p], motifs_list[id].seq) = 1

\* C2: the starts find_motifs records for a motif are exactly the indices i in
\* 1..length-len+1 at which its pattern matches the upper-cased sequence,
\* overlapping occurrences included; a motif longer than the sequence records
\* nothing and raises nothing.
C2_AllOverlappingStarts ==
    Annotated =>
        \A id \in 1..Len(motifs_list) :
            /\ RecordedStarts(motifs_list[id]) = MatchStarts(motifs_list[id], tran)
            /\ Len(motif_locations[id]) =
                  Cardinality(MatchStarts(motifs_list[id], tran)) * motifs_list[id].length
            /\ motifs_list[id].length > tran.length =>
                  motif_locations[id] = <<>> /\ error = "none"

\* C2's case: motif "AA" in "AAAA" is recorded at 1, 2 and 3, beside a motif
\* longer than the sequence that records nothing.
C2_Witness ==
    /\ Annotated
    /\ tran.sequence = <<"A","A","A","A">>
    /\ Len(motifs_list) = 2
    /\ motifs_list[1].seq = <<"A","A">>
    /\ RecordedStarts(motifs_list[1]) = {1, 2, 3}
    /\ motif_locations[1] = <<1,2, 2,3, 3,4>>
    /\ motifs_list[2].seq = <<"A","U","A">>
    /\ motif_locations[2] = <<>>

\* The pattern text the claim C3 as amended gives a character of {A,C,G,T}.
PlainOrTU(c) == IF c = "T" THEN <<"[","T","U","]">> ELSE <<c>>

RECURSIVE PlainOrTUAll(_)
PlainOrTUAll(s) ==
    IF s = <<>> THEN <<>> ELSE PlainOrTU(Head(s)) \o PlainOrTUAll(Tail(s))

MotifsBuilt == pc \in {"motifs", "annotated"}

\* C3 as stated: the pattern of a motif over {A,C,G,T} is the motif text itself.
C3_PlainMotifUnchanged ==
    MotifsBuilt =>
        \A id \in 1..Len(motifs_list) :
            SeqRange(motifs_list[id].seq) \subseteq {"A","C","G","T"} =>
                motifs_list[id].re_seq = motifs_list[id].seq

\* C3 as amended: the pattern of a motif over {A,C,G,T} is the motif text with
\* every A, C and G kept as it is and every T replaced by the class [TU].
C3_PlainMotifUpToTU ==
    MotifsBuilt =>
        \A id \in 1..Len(motifs_list) :
            SeqRange(motifs_list[id].seq) \subseteq {"A","C","G","T"} =>
                motifs_list[id].re_seq = PlainOrTUAll(motifs_list[id].seq)

\* C3's case: the motifs "AA" and "TA" have been built.
C3_Witness ==
    /\ MotifsBuilt
    /\ Len(motifs_list) = 2
    /\ motifs_list[1].seq = <<"A","A">>
    /\ motifs_list[1].re_seq = <<"A","A">>
    /\ motifs_list[2].seq = <<"T","A">>
    /\ motifs_list[2].re_seq = <<"[","T","U","]","A">>

\* The bases the IUPAC nucleotide code gives a code, T and U interchangeable.
Iupac(c) ==
    CASE c = "N" -> {"A","C","G","T","U"}
      [] c = "R" -> {"A","G"}
      [] c = "Y" -> {"C","T","U"}
      [] c = "K" -> {"G","T","U"}
      [] c = "M" -> {"A","C"}
      [] c = "S" -> {"C","G"}
      [] c = "W" -> {"A","T","U"}
      [] c = "B" -> {"C","G","T","U"}
      [] c = "D" -> {"A","G","T","U"}
      [] c = "H" -> {"A","C","T","U"}
      [] c = "V" -> {"A","C","G"}
      [] c = "U" -> {"T","U"}
      [] c = "T" -> {"T","U"}
      [] OTHER -> {c}

\* C4: a one-code motif of the table matches a one-base sequence exactly when
\* the IUPAC code says the code may stand for the base (T and U interchangeable).
C4_TableIsIupac ==
    (/\ Annotated
     /\ Len(motifs_list) = 1
     /\ motifs_list[1].length = 1
     /\ motifs_list[1].seq[1] \in AmbigCodes
     /\ tran.length = 1
     /\ tran.sequence[1] \in Bases)
    => (position_motif[1] # <<>> <=> tran.sequence[1] \in Iupac(motifs_list[1].seq[1]))

\* The characters a motif may hold: the 13 codes and A, C, G, T.
MotifCharacters == AmbigCodes \cup {"A","C","G","T"}

\* C5: a motif line that, upper-cased, holds a character that is neither one of
\* the 13 codes nor A/C/G/T ends the run with InvalidMotifCharacter; the
\* character is never copied into a pattern and no motif comes of the line.
C5_InvalidCharacterFails ==
    (/\ MotifsBuilt
     /\ \E k \in 1..Len(motif_file) :
           ~(SeqRange(Upper(Strip(motif_file[k]))) \subseteq MotifCharacters))
    => /\ error = "InvalidMotifCharacter"
       /\ \A id \in 1..Len(motifs_list) :
             SeqRange(motifs_list[id].seq) \subseteq MotifCharacters

\* C7: after find_motifs the keys of position_motif are exactly 1..length.
C7_KeysAreOneToLength ==
    Annotated => DOMAIN position_motif = 1..tran.length

\* C7's case: a sequence of three bases annotated with an empty motif list.
C7_Witness ==
    /\ Annotated
    /\ motifs_list = <<>>
    /\ tran.length = 3
    /\ DOMAIN position_motif = {1, 2, 3}
    /\ \A p \in 1..3 : position_motif[p] = <<>>

(***************************************************************************)
(* parse_fasta: one action per branch of the loop body, one for the end of *)
(* the file.                                                               *)
(***************************************************************************)
\* Lines of a FASTA file: headers with a name, with no name and with a
\* description, and sequence lines; ">" inside a sequence line is a base.
FastaLines ==
    { <<">","s">>,
      <<">">>,
      <<">","s"," ","d">>,
      <<"a","G">>,
      <<" ","G",">"," ">>,
      <<"a","c","g","t","A","C","G","T","a","c","g","t">> }

\* A file of at least one line whose first line is a header.
InitFasta ==
    /\ InitCommon
    /\ fa_file \in SeqsUpTo(FastaLines, MaxLines)
    /\ fa_file # <<>>
    /\ StartsWithGt(Strip(fa_file[1]))
    /\ tran_seq = <<>>
    /\ motif_file = <<>>

\* line = line.strip(), for the line the loop is at
CurrentLine == Strip(fa_file[fa_pos + 1])

\* line.split()[0][1:]
HeaderName(line) == Tail(Split(line)[1])

\* if line.startswith(">") and readname == "":
FastaFirstHeader ==
    /\ pc = "start"
    /\ fa_pos < Len(fa_file)
    /\ StartsWithGt(CurrentLine) /\ readname = <<>>
    /\ readname' = HeaderName(CurrentLine)
    /\ fa_pos' = fa_pos + 1
    /\ UNCHANGED <<pc, fa_file, seq, transcripts_list, motif_file, motifs_list,
                   tran_seq, tran, motif_locations, position_motif, mm_image,
                   ticks, error>>

\* elif line.startswith(">"):
FastaNextHeader ==
    /\ pc = "start"
    /\ fa_pos < Len(fa_file)
    /\ StartsWithGt(CurrentLine) /\ readname # <<>>
    /\ transcripts_list' = Append(transcripts_list, Transcript(readname, seq))
    /\ seq' = <<>>
    /\ readname' = HeaderName(CurrentLine)
    /\ fa_pos' = fa_pos + 1
    /\ UNCHANGED <<pc, fa_file, motif_file, motifs_list, tran_seq, tran,
                   motif_locations, position_motif, mm_image, ticks, error>>

\* else: seq += line
FastaSequenceLine ==
    /\ pc = "start"
    /\ fa_pos < Len(fa_file)
    /\ ~StartsWithGt(CurrentLine)
    /\ seq' = seq \o CurrentLine
    /\ fa_pos' = fa_pos + 1
    /\ UNCHANGED <<pc, fa_file, readname, transcripts_list, motif_file,
                   motifs_list, tran_seq, tran, motif_locations, position_motif,
                   mm_image, ticks, error>>

\* After the loop: transcripts_list.append(Transcript(readname, seq)); return
FastaEndOfFile ==
    /\ pc = "start"
    /\ fa_pos = Len(fa_file)
    /\ transcripts_list' = Append(transcripts_list, Transcript(readname, seq))
    /\ pc' = "parsed"
    /\ UNCHANGED <<fa_file, fa_pos, readname, seq, motif_file, motifs_list,
                   tran_seq, tran, motif_locations, position_motif, mm_image,
                   ticks, error>>

NextFasta ==
    FastaFirstHeader \/ FastaNextHeader \/ FastaSequenceLine \/ FastaEndOfFile

SpecFasta == InitFasta /\ [][NextFasta]_vars

(***************************************************************************)
(* Properties of parse_fasta and of Transcript.                            *)
(***************************************************************************)
\* C8: the exons of every transcript are exactly the 1-based positions of its
\* uppercase letters A-Z, in strictly increasing order and within 1..length.
C8_ExonsAreUppercasePositions ==
    \A j \in 1..Len(transcripts_list) :
        LET t == transcripts_list[j] IN
        /\ \A k \in 1..(Len(t.exons) - 1) : t.exons[k] < t.exons[k + 1]
        /\ SeqRange(t.exons) =
              {i \in 1..t.length : t.sequence[i] \in SeqRange(UppercaseLetters)}

\* C8's case: "acgtACGTacgt" has the exons 5, 6, 7, 8.
C8_Witness ==
    \E j \in 1..Len(transcripts_list) :
        /\ transcripts_list[j].sequence =
              <<"a","c","g","t","A","C","G","T","a","c","g","t">>
        /\ transcripts_list[j].exons = <<5, 6, 7, 8>>

\* The indices of the header lines of the file.
HeaderIndices == {i \in 1..Len(fa_file) : StartsWithGt(Strip(fa_file[i]))}

\* The index of the j-th header line.
RECURSIVE NthHeader(_)
NthHeader(j) ==
    IF j = 1
    THEN CHOOSE i \in HeaderIndices : \A h \in HeaderIndices : i <= h
    ELSE CHOOSE i \in HeaderIndices :
            /\ i > NthHeader(j - 1)
            /\ \A h \in HeaderIndices : h > NthHeader(j - 1) => i <= h

\* The stripped lines first..last of the file, concatenated in order.
RECURSIVE ConcatLines(_, _)
ConcatLines(first, last) ==
    IF first > last THEN <<>>
    ELSE Strip(fa_file[first]) \o ConcatLines(first + 1, last)

\* The last line of the record whose header is at index h.
RecordEnd(h) ==
    IF \E i \in HeaderIndices : i > h
    THEN (CHOOSE i \in HeaderIndices :
             i > h /\ \A g \in HeaderIndices : g > h => i <= g) - 1
    ELSE Len(fa_file)

\* C10: parse_fasta returns one Transcript per header line, in file order, named
\* by the first token of the header without ">", its bases the concatenation of
\* the lines between its header and the next one; also for an empty name.
C10_OneTranscriptPerHeader ==
    pc = "parsed" =>
        /\ Len(transcripts_list) = Cardinality(HeaderIndices)
        /\ \A j \in 1..Len(transcripts_list) :
              j <= Cardinality(HeaderIndices) =>
                /\ transcripts_list[j].readname = HeaderName(Strip(fa_file[NthHeader(j)]))
                /\ transcripts_list[j].sequence =
                      ConcatLines(NthHeader(j) + 1, RecordEnd(NthHeader(j)))

(***************************************************************************)
(* class MotifsImage                                                       *)
(***************************************************************************)
scale == 2
foot_len == 120
spacing == 200
margins == 50

\* The palette, each colour in hundredths of its components.
colors ==
    << <<0, 50, 0>>,
       <<100, 0, 0>>,
       <<0, 0, 100>>,
       <<50, 0, 50>>,
       <<0, 75, 100>>,
       <<100, 0, 100>>,
       <<60, 20, 40>>,
       <<100, 40, 0>>,
       <<100, 100, 0>>,
       <<100, 0, 50>> >>

\* round(n / d) for n >= 0, d > 0: to the nearest integer, a tie to the even one.
PyRound(n, d) ==
    IF 2 * (n % d) < d THEN n \div d
    ELSE IF 2 * (n % d) > d THEN (n \div d) + 1
    ELSE IF (n \div d) % 2 = 0 THEN n \div d ELSE (n \div d) + 1

Digits == <<"0","1","2","3","4","5","6","7","8","9">>

\* str(n) for n >= 0
RECURSIVE IntToStr(_)
IntToStr(n) ==
    IF n < 10 THEN <<Digits[n + 1]>>
    ELSE Append(IntToStr(n \div 10), Digits[(n % 10) + 1])

\* max(transcripts_list, key=lambda x: x.length).length
LongestLen(list) ==
    CHOOSE l \in {list[i].length : i \in 1..Len(list)} :
        \A i \in 1..Len(list) : list[i].length <= l

\* The colour loop of __init__ from the k-th motif on; colors[co_count] for the
\* 0-based co_count = k - 1.
RECURSIVE ColorPairsFrom(_, _, _)
ColorPairsFrom(list, k, pairs) ==
    IF k > Len(list) THEN pairs
    ELSE ColorPairsFrom(list, k + 1, (list[k].seq :> colors[k]) @@ pairs)

\* Whether colors[co_count] raises IndexError in the colour loop.
ColorIndexOutOfRange(list) == Len(list) > Len(colors)

\* The object __init__ leaves when nothing raises.
MotifsImageObject(name, tlist, mlist) ==
    [constructed |-> TRUE,
     name |-> name,
     scale |-> scale,
     num_images |-> Len(tlist),
     title_len |-> 25 + (20 * Len(mlist)),
     longest_len |-> LongestLen(tlist),
     width |-> (margins * 2) + (LongestLen(tlist) * scale),
     height |-> (Len(tlist) * spacing) + (25 + (20 * Len(mlist))) + foot_len,
     tick_spacing |-> (LongestLen(tlist) * scale) \div 4,
     ticklabels |-> << <<"0">>,
                       IntToStr(PyRound(LongestLen(tlist), 4)),
                       IntToStr(PyRound(LongestLen(tlist), 2)),
                       IntToStr(PyRound(LongestLen(tlist) * 3, 4)),
                       IntToStr(LongestLen(tlist)) >>,
     tickoffset |-> <<0, 12, 12, 12, 15>>,
     color_pairs |-> ColorPairsFrom(mlist, 1, <<>>)]

\* A string of n characters c.
Repeat(c, n) == [i \in 1..n |-> c]

\* A motif list of n entries, entry i the text "A" * i.
ImageMotifs(n) == [i \in 1..n |-> Motif(i, Repeat("A", i))]

\* The state after parsing: one or more transcripts of any short length and a
\* list of motifs of distinct texts, up to one more than the palette holds.
InitImage ==
    /\ pc = "start"
    /\ fa_file = <<>>
    /\ fa_pos = 0
    /\ readname = <<>>
    /\ seq = <<>>
    /\ motif_file = <<>>
    /\ tran_seq = <<>>
    /\ tran = Transcript(<<>>, <<>>)
    /\ motif_locations = <<>>
    /\ position_motif = <<>>
    /\ mm_image = NoImage
    /\ ticks = <<>>
    /\ error = "none"
    /\ \E lens \in SeqsUpTo(0..MaxImgLen, MaxTranscripts) :
          /\ lens # <<>>
          /\ transcripts_list =
                [i \in 1..Len(lens) |-> Transcript(<<"t">>, Repeat("a", lens[i]))]
    /\ \E n \in 0..MaxImgMotifs : motifs_list = ImageMotifs(n)

\* mm_image = MotifsImage(file_name, transcripts_list, motifs_list)
MotifsImageInit ==
    /\ pc = "start"
    /\ IF ColorIndexOutOfRange(motifs_list)
       THEN /\ error' = "IndexError"
            /\ mm_image' = mm_image
            /\ pc' = "failed"
       ELSE /\ mm_image' = MotifsImageObject(<<"f">>, transcripts_list, motifs_list)
            /\ error' = error
            /\ pc' = "image"
    /\ UNCHANGED <<fa_file, fa_pos, readname, seq, transcripts_list, motif_file,
                   motifs_list, tran_seq, tran, motif_locations, position_motif,
                   ticks>>

\* mm_image.add_ticks(): the move_to and line_to of each tick.
AddTicks ==
    /\ pc = "image"
    /\ ticks' = [i \in 1..Len(mm_image.ticklabels) |->
                   [x |-> margins + ((i - 1) * mm_image.tick_spacing),
                    y_from |-> mm_image.height - 75,
                    y_to |-> mm_image.height - 100]]
    /\ pc' = "ticks"
    /\ UNCHANGED <<fa_file, fa_pos, readname, seq, transcripts_list, motif_file,
                   motifs_list, tran_seq, tran, motif_locations, position_motif,
                   mm_image, error>>

NextImage == MotifsImageInit \/ AddTicks

SpecImage == InitImage /\ [][NextImage]_vars

(***************************************************************************)
(* Properties of the layout.                                               *)
(***************************************************************************)
ImageRun == pc \in {"image", "failed", "ticks"}

\* C6: with at most as many motifs as the palette has entries, construction
\* succeeds and the motif at input index i has palette entry i; with more it
\* fails with TooManyMotifs and no palette entry is reused.
C6_PaletteInOrderOrTooMany ==
    ImageRun =>
        IF Len(motifs_list) <= Len(colors)
        THEN /\ mm_image.constructed
             /\ error = "none"
             /\ \A i \in 1..Len(motifs_list) :
                   mm_image.color_pairs[motifs_list[i].seq] = colors[i]
        ELSE /\ ~mm_image.constructed
             /\ error = "TooManyMotifs"

\* C9: for a longest sequence of L >= 1 bases, add_ticks draws exactly 5 ticks
\* and tick i (0..4) is i/4 of the drawable width scale * L right of the left
\* margin, the fifth at margin + scale * L.
C9_TicksAtQuarters ==
    (pc = "ticks" /\ mm_image.longest_len >= 1) =>
        /\ Len(ticks) = 5
        /\ \A i \in 0..4 :
              4 * (ticks[i + 1].x - margins) = i * scale * mm_image.longest_len
        /\ ticks[5].x = margins + (scale * mm_image.longest_len)

====
